---- MODULE Spec2Model ----
(***************************************************************************)
(* Model of ms-files-gce: the GCETransport adapter (src/src/index.js) and  *)
(* the patched File.prototype.getSignedUrl (src/src/monkey-patches/file.js)*)
(*                                                                         *)
(* Three specifications share the module:                                  *)
(*   Spec        bucket resolution: createBucket / connect                 *)
(*   SpecSign    URL signing: createSignedURL / getSignedUrl               *)
(*   SpecUpload  resumable upload requests: MMResumableUpload.makeRequest  *)
(***************************************************************************)
EXTENDS Integers, Sequences, FiniteSets, TLC

VARIABLES
  \* ---- bucket resolution ----
  remote,      \* the storage service's buckets, as the pages a listing returns
  pc,          \* per caller: position inside createBucket
  viaConnect,  \* per caller: TRUE when the running createBucket was called by connect
  query,       \* per caller: the query of the listing request in flight
  requested,   \* per caller: the queries of the listing requests of the running call
  trace,       \* per caller: what each answered listing request of the call showed
  createArgs,  \* per caller: the arguments of the creation calls of the running call
  result,      \* per caller: the value the call's promise resolved with
  prior,       \* per caller: how many calls had settled when the running one began
  settled,     \* the calls that have settled, in order of settling
  started,     \* number of calls begun so far
  creations,   \* number of createBucketAsync calls issued so far, by anyone
  cached,      \* this._bucket
  bucketWrites, \* the values assigned to this._bucket, in order
  \* ---- URL signing ----
  opts,        \* the options of the running createSignedURL call
  spc,         \* position inside getSignedUrl
  checkedAt,   \* the Date.now() the expiry was compared against
  config,      \* getSignedUrl's locals computed before the credential lookup
  credCalls,   \* getCredentials calls of the running request
  credentials, \* what the credential provider answered
  signedStrings, \* the strings handed to sign.update, in order
  callbacks,   \* the invocations of the caller's callback, in order
  promise,     \* the promise createSignedURL returned
  \* ---- resumable upload requests ----
  metadata,    \* this.metadata of the MMResumableUpload
  reqOpts,     \* the request options object last passed to makeRequest
  upc,         \* position inside makeRequest
  sent,        \* the requests passed on to super.makeRequest, in order
  delivered,   \* the invocations of makeRequest's callback, in order
  attempts     \* makeRequest calls so far

bucketVars == <<remote, pc, viaConnect, query, requested, trace, createArgs,
                result, prior, settled, started, creations, cached,
                bucketWrites>>

signVars == <<opts, spc, checkedAt, config, credCalls, credentials, signedStrings,
              callbacks, promise>>

uploadVars == <<metadata, reqOpts, upc, sent, delivered, attempts>>

vars == <<bucketVars, signVars, uploadVars>>

(***************************************************************************)
(* Bounds of the model.                                                    *)
(***************************************************************************)
MaxPages == 2      \* pages of the bucket listing
MaxCalls == 2      \* createBucket/connect calls over one run
MaxSeconds == 1    \* expiry and clock values reach MaxSeconds whole seconds
MaxHeaders == 2    \* extension headers in one signing request
MaxAttempts == 2   \* makeRequest calls (the first attempt and the retries)

Callers == {"c1", "c2"}

(***************************************************************************)
(* Configuration: this._config.bucket (defaultOpts merged with opts).      *)
(***************************************************************************)
needle == "must-be-a-valid-bucket-name"
configMetadata == "configured"

Descriptor(n, m) == [name |-> n, metadata |-> m]

\* Buckets other projects' listings may hold beside the configured one. Bucket
\* names are unique in the service, so a name occurs at most once in `remote`.
OtherBuckets == {Descriptor("alpha", "other"), Descriptor("omega", "other")}
NeedleBuckets == {Descriptor(needle, configMetadata), Descriptor(needle, "legacy")}

\* `query` undefined (the first call) and `nextQuery` null (no further page).
NoQuery == 0

(***************************************************************************)
(* The storage client, as createBucket uses it.                            *)
(***************************************************************************)
\* gcs.getBucketsAsync(query): the page the query names and the query of the
\* page after it, NoQuery when there is none.
getBucketsAsync(pages, q) ==
  [buckets   |-> pages[q + 1],
   nextQuery |-> IF q + 1 < Len(pages) THEN q + 1 ELSE NoQuery]

\* ld.findWhere(buckets, { name: needle }): the matching buckets of the page
\* (none, or the one bucket of that name).
findWhere(buckets, name) == {b \in buckets : b.name = name}

\* A promisified call made with { multiArgs: true } always fulfils with the array
\* of the callback's success values.
MultiArgs(values) == [multiArgs |-> TRUE, args |-> values]
\* A plain value a promise chain resolves with.
Plain(value) == [multiArgs |-> FALSE, args |-> <<value>>]
\* undefined
Unset == [multiArgs |-> FALSE, args |-> <<>>]

\* A handler that creates as soon as one page shows no match, whatever the
\* continuation.
SpreadCreatesEarly(buckets, nextQuery) ==
  IF findWhere(buckets, needle) # {} THEN "return"
  ELSE "create"

\* The branch the .spread handler of createBucket takes on one page.
spread(buckets, nextQuery) ==
  IF findWhere(buckets, needle) # {} THEN "return"
  ELSE IF nextQuery # NoQuery THEN "recurse"
  ELSE "create"

(***************************************************************************)
(* Initial state of the bucket resolver.                                   *)
(***************************************************************************)
\* Every listing of 1..MaxPages pages in which each candidate bucket is absent
\* or sits on one page, the configured name occurring at most once.
Listings ==
  UNION {
    { [p \in 1..n |->
         {b \in OtherBuckets : place[b] = p}
           \cup {b \in NeedleBuckets : where = p /\ b.metadata = meta}]
      : place \in [OtherBuckets -> 0..n], where \in 0..n,
        meta \in {configMetadata, "legacy"} }
    : n \in 1..MaxPages }

InitBucket ==
  /\ remote \in Listings
  /\ pc = [c \in Callers |-> "idle"]
  /\ viaConnect = [c \in Callers |-> FALSE]
  /\ query = [c \in Callers |-> NoQuery]
  /\ requested = [c \in Callers |-> <<>>]
  /\ trace = [c \in Callers |-> <<>>]
  /\ createArgs = [c \in Callers |-> <<>>]
  /\ result = [c \in Callers |-> Unset]
  /\ prior = [c \in Callers |-> 0]
  /\ settled = <<>>
  /\ started = 0
  /\ creations = 0
  /\ cached = Unset
  /\ bucketWrites = <<>>

(***************************************************************************)
(* createBucket(query) and connect().                                      *)
(***************************************************************************)
\* A caller invokes createBucket() (directly, or through connect()): the first
\* listing request goes out with an undefined query.
Call(c, connecting) ==
  /\ pc[c] \in {"idle", "resolved", "rejected"}
  /\ started < MaxCalls
  /\ started' = started + 1
  /\ pc' = [pc EXCEPT ![c] = "listing"]
  /\ viaConnect' = [viaConnect EXCEPT ![c] = connecting]
  /\ query' = [query EXCEPT ![c] = NoQuery]
  /\ requested' = [requested EXCEPT ![c] = <<NoQuery>>]
  /\ trace' = [trace EXCEPT ![c] = <<>>]
  /\ createArgs' = [createArgs EXCEPT ![c] = <<>>]
  /\ result' = [result EXCEPT ![c] = Unset]
  /\ prior' = [prior EXCEPT ![c] = Len(settled)]
  /\ UNCHANGED <<remote, settled, creations, cached, bucketWrites>>
  /\ UNCHANGED <<signVars, uploadVars>>

createBucket(c) == Call(c, FALSE)

connect(c) == Call(c, TRUE)

\* The record of a settled call.
Settle(c, ok, value) ==
  [caller |-> c, ok |-> ok, value |-> value, prior |-> prior[c],
   created |-> Len(createArgs[c]), connect |-> viaConnect[c]]

\* connect's .tap(bucket => { this._bucket = bucket; }): it runs when the
\* createBucket that connect called fulfils, and not for a direct createBucket.
tap(c, value) ==
  /\ cached' = IF viaConnect[c] THEN value ELSE cached
  /\ bucketWrites' = IF viaConnect[c] THEN Append(bucketWrites, value) ELSE bucketWrites

\* The listing answers and the .spread handler runs on the page.
ListReply(c) ==
  /\ pc[c] = "listing"
  /\ LET page == getBucketsAsync(remote, query[c])
         hit == findWhere(page.buckets, needle)
         branch == spread(page.buckets, page.nextQuery)
     IN
       /\ trace' = [trace EXCEPT ![c] =
            Append(@, [query |-> query[c], found |-> hit # {},
                       nextQuery |-> page.nextQuery])]
       /\ CASE branch = "return" ->
                 LET value == Plain(CHOOSE b \in hit : TRUE) IN
                   /\ pc' = [pc EXCEPT ![c] = "resolved"]
                   /\ result' = [result EXCEPT ![c] = value]
                   /\ settled' = Append(settled, Settle(c, TRUE, value))
                   /\ tap(c, value)
                   /\ UNCHANGED <<query, requested, createArgs, creations>>
            [] branch = "recurse" ->
                 /\ query' = [query EXCEPT ![c] = page.nextQuery]
                 /\ requested' = [requested EXCEPT ![c] = Append(@, page.nextQuery)]
                 /\ UNCHANGED <<pc, result, settled, cached, bucketWrites, createArgs,
                               creations>>
            [] branch = "create" ->
                 /\ pc' = [pc EXCEPT ![c] = "creating"]
                 /\ createArgs' = [createArgs EXCEPT ![c] =
                      Append(@, <<needle, configMetadata>>)]
                 /\ creations' = creations + 1
                 /\ UNCHANGED <<query, requested, result, settled, cached, bucketWrites>>
  /\ UNCHANGED <<remote, viaConnect, prior, started>>
  /\ UNCHANGED <<signVars, uploadVars>>

\* The listing request fails: the promise of createBucket rejects.
ListFail(c) ==
  /\ pc[c] = "listing"
  /\ pc' = [pc EXCEPT ![c] = "rejected"]
  /\ settled' = Append(settled, Settle(c, FALSE, Unset))
  /\ UNCHANGED <<remote, viaConnect, query, requested, trace, createArgs, result,
                 prior, started, creations, cached, bucketWrites>>
  /\ UNCHANGED <<signVars, uploadVars>>

\* The service creates the bucket and the creation call fulfils, with the
\* array [bucket, apiResponse] (multiArgs).
CreateReply(c) ==
  /\ pc[c] = "creating"
  /\ \A p \in 1..Len(remote) : findWhere(remote[p], needle) = {}
  /\ LET b == Descriptor(createArgs[c][1][1], createArgs[c][1][2])
         value == MultiArgs(<<b, b>>)
     IN
       /\ remote' = [remote EXCEPT ![Len(remote)] = @ \cup {b}]
       /\ pc' = [pc EXCEPT ![c] = "resolved"]
       /\ result' = [result EXCEPT ![c] = value]
       /\ settled' = Append(settled, Settle(c, TRUE, value))
       /\ tap(c, value)
  /\ UNCHANGED <<viaConnect, query, requested, trace, createArgs, prior, started,
                 creations>>
  /\ UNCHANGED <<signVars, uploadVars>>

\* The creation call fails (the name is taken, or the request fails).
CreateFail(c) ==
  /\ pc[c] = "creating"
  /\ pc' = [pc EXCEPT ![c] = "rejected"]
  /\ settled' = Append(settled, Settle(c, FALSE, Unset))
  /\ UNCHANGED <<remote, viaConnect, query, requested, trace, createArgs, result,
                 prior, started, creations, cached, bucketWrites>>
  /\ UNCHANGED <<signVars, uploadVars>>

NextBucket ==
  \E c \in Callers :
    \/ createBucket(c)
    \/ connect(c)
    \/ ListReply(c)
    \/ ListFail(c)
    \/ CreateReply(c)
    \/ CreateFail(c)

(***************************************************************************)
(* Properties of bucket resolution.                                        *)
(***************************************************************************)
\* The pages of the listing that hold no bucket of the configured name.
AllScannedWithoutMatch(c) ==
  /\ Len(trace[c]) = Len(remote)
  /\ Len(requested[c]) = Len(trace[c])
  /\ \A k \in 1..Len(trace[c]) : ~trace[c][k].found
  /\ trace[c][Len(trace[c])].nextQuery = NoQuery

\* C1: within one createBucket call the pages are requested one at a time, each
\* with the continuation the page before it returned, starting from the undefined
\* query; a page holding the configured name ends the scan, the call returns that
\* bucket and issues no creation call and no further listing; a creation call,
\* with the configured name and metadata, is issued only once every page was
\* scanned without a match and the last page returned no continuation, and then
\* exactly one is issued.
C1_SequentialScanThenOneCreate ==
  \A c \in Callers :
    LET req == requested[c]
        tr == trace[c]
        cr == createArgs[c]
    IN
      /\ Len(req) - Len(tr) \in {0, 1}
      /\ Len(req) > 0 => req[1] = NoQuery
      /\ \A k \in 1..Len(tr) : tr[k].query = req[k]
      /\ \A k \in 2..Len(req) : req[k] = tr[k - 1].nextQuery /\ req[k] = req[k - 1] + 1
      /\ \A k \in 1..Len(tr) :
           tr[k].found =>
             /\ k = Len(tr)
             /\ Len(req) = k
             /\ cr = <<>>
             /\ pc[c] = "resolved"
             /\ ~result[c].multiArgs
             /\ result[c].args[1].name = needle
             /\ result[c].args[1] \in remote[req[k] + 1]
      /\ Len(cr) <= 1
      /\ cr # <<>> => cr[1] = <<needle, configMetadata>> /\ AllScannedWithoutMatch(c)
      /\ (tr # <<>> /\ AllScannedWithoutMatch(c)) => Len(cr) = 1

\* C1 witness: a call scanned two pages without a match, issued its creation call
\* and resolved; and another call found the bucket on the second page.
C1_Witness ==
  \E c \in Callers :
    /\ Len(trace[c]) = 2
    /\ Len(createArgs[c]) = 1
    /\ pc[c] = "resolved"

\* Call j of `settled` began after call i had settled.
InSequence(i, j) == i < j /\ settled[j].prior >= i

\* C2 as stated: two createBucket calls in sequence, the second begun after the
\* first completed, return the same bucket descriptor and issue exactly one
\* creation call in total, whether or not the bucket existed before the first.
C2_TwiceSameDescriptorExactlyOneCreate ==
  \A i, j \in 1..Len(settled) :
    (InSequence(i, j) /\ settled[i].ok /\ settled[j].ok) =>
      /\ settled[i].value = settled[j].value
      /\ settled[i].created + settled[j].created = 1

\* C2, with its count read in the way most favourable to the code (no creation
\* call when the bucket existed before the first call, one when it did not): two
\* createBucket calls in sequence, the second begun after the first completed,
\* return the same bucket descriptor and issue at most one creation call in total.
C2_TwiceSameDescriptorOneCreate ==
  \A i, j \in 1..Len(settled) :
    (InSequence(i, j) /\ settled[i].ok /\ settled[j].ok) =>
      /\ settled[i].value = settled[j].value
      /\ settled[i].created + settled[j].created <= 1

\* C3: callers racing on createBucket while the bucket does not exist issue at
\* most one creation call: as long as no call has settled, every call begun
\* so far overlaps every other, and together they have issued at most one.
C3_NoDuplicateCreateWhenRacing ==
  settled = <<>> => creations <= 1

\* The connect calls that completed successfully, as indices of `settled`.
SuccessfulConnects == {i \in 1..Len(settled) : settled[i].ok /\ settled[i].connect}

\* C11: over any sequence of connect calls, failed ones included, this._bucket
\* is written at most once, only by a successfully completed connect, and keeps
\* the value of that one write ever after; a connect whose bucket resolution
\* fails leaves it unwritten.
C11_CachedBucketWrittenOnce ==
  /\ Len(bucketWrites) <= 1
  /\ Len(bucketWrites) <= Cardinality(SuccessfulConnects)
  /\ SuccessfulConnects = {} => (bucketWrites = <<>> /\ cached = Unset)
  /\ bucketWrites # <<>> => cached = bucketWrites[1]

\* C11, with rewriting the same value allowed: every value ever assigned to
\* this._bucket equals the first one, so the cached descriptor never changes.
C11_CachedValueNeverChanges ==
  \A k \in 1..Len(bucketWrites) : bucketWrites[k] = bucketWrites[1]

\* The part of C11 the code keeps: this._bucket is written once per successful
\* connect, with that connect's result, and by nothing else; failed connects and
\* direct createBucket calls leave it as it was.
C11_WrittenBySuccessfulConnectsOnly ==
  /\ Len(bucketWrites) = Cardinality(SuccessfulConnects)
  /\ bucketWrites = <<>> => cached = Unset
  /\ bucketWrites # <<>> => cached = bucketWrites[Len(bucketWrites)]
  /\ \A k \in 1..Len(bucketWrites) :
       \E i \in SuccessfulConnects : settled[i].value = bucketWrites[k]

(***************************************************************************)
(* JavaScript values used by the signing code.                             *)
(***************************************************************************)
\* undefined, where a string was expected.
undefined == "<undefined>"

\* Truthiness of a string-or-undefined value: `x || ''`, `!x`.
Truthy(x) == x # undefined /\ x # ""

\* x || ''
OrEmpty(x) == IF Truthy(x) THEN x ELSE ""

\* What Array.prototype.join makes of an element: undefined becomes ''.
JoinElement(x) == IF x = undefined THEN "" ELSE x

\* Milliseconds in a second (expires / 1000).
MsPerSecond == 1000

\* Math.floor(expires / 1000), which the code does not use.
MathFloor(ms) == ms \div MsPerSecond

\* Math.round(expires / 1000): the nearest integer, halves rounded up. new Date(n)
\* keeps an integer number of milliseconds as it is.
MathRound(ms) == (2 * ms + MsPerSecond) \div (2 * MsPerSecond)

\* A getSignedUrl without the expiry check.
NeverExpired(expires, now) == FALSE

\* expires < Date.now()
Expired(expires, now) == expires < now

\* { read: 'GET', write: 'PUT', delete: 'DELETE' }[action]
ActionVerb(action) ==
  CASE action = "read" -> "GET"
    [] action = "write" -> "PUT"
    [] action = "delete" -> "DELETE"
    [] OTHER -> undefined

\* A check of the private key alone.
KeyOnlyMissing(creds) == ~Truthy(creds.private_key)

\* !credentials.private_key || !credentials.client_email
CredentialsMissing(creds) ==
  ~Truthy(creds.private_key) \/ ~Truthy(creds.client_email)

(***************************************************************************)
(* Inputs of a signing request.                                            *)
(***************************************************************************)
\* Timestamps in milliseconds: whole seconds and the fractions around the
\* rounding boundaries.
Fractions == {0, 499, 500, 999}
Expiries == {sec * MsPerSecond + f : sec \in 0..MaxSeconds, f \in Fractions}
Clocks == {sec * MsPerSecond + f : sec \in 0..MaxSeconds, f \in {0, 500}}

Actions == {"read", "write", "delete", "list", undefined}

\* Header names and values are strings, modelled as sequences of characters.
HeaderNames == {<<"x", "-", "a">>, <<"X", "-", "A">>, <<"x", "-", "b">>}
HeaderValue == <<"v">>

\* No extensionHeaders supplied.
NoHeaders == <<>>

\* A supplied mapping: its entries in insertion order, the names distinct.
\* Object.keys lists string keys that are not array indices in that order.
HeaderMappings ==
  UNION {
    { m \in [1..n -> HeaderNames] : \A i, j \in 1..n : i # j => m[i] # m[j] }
    : n \in 0..MaxHeaders }

ExtensionHeaders ==
  {[supplied |-> FALSE, names |-> NoHeaders]}
    \cup {[supplied |-> TRUE, names |-> m] : m \in HeaderMappings}

SigningOptions ==
  [action : Actions, expires : Expiries, md5 : {undefined, "md5"},
   type : {undefined, "text/plain"}, extensionHeaders : ExtensionHeaders]

CredentialAnswers ==
  [err : {undefined, "no credentials"},
   private_key : {undefined, "", "PEM"},
   client_email : {undefined, "", "sa@example"}]

\* The file being signed: this.bucket.name and encodeURIComponent(this.name).
bucketName == <<"b">>
encodedName == <<"o">>

(***************************************************************************)
(* getSignedUrl: the canonical string and the URL.                         *)
(***************************************************************************)
\* String.prototype.toLowerCase on one character of the alphabet used here.
LowerChar(ch) ==
  CASE ch = "X" -> "x"
    [] ch = "A" -> "a"
    [] ch = "B" -> "b"
    [] OTHER -> ch

toLowerCase(str) == [i \in 1..Len(str) |-> LowerChar(str[i])]

\* format('{name}:{value}\n', { name: headerName, value: ... })
HeaderLine(headerName, value) == headerName \o <<":">> \o value \o <<"\n">>

\* Object.keys(extensionHeaders).forEach(...): the lines in insertion order.
RECURSIVE ConcatLines(_)
ConcatLines(names) ==
  IF names = <<>> THEN <<>>
  ELSE HeaderLine(Head(names), HeaderValue) \o ConcatLines(Tail(names))

extensionHeadersString(extensionHeaders) ==
  IF extensionHeaders.supplied THEN ConcatLines(extensionHeaders.names) ELSE <<>>

\* config.resource
Resource == <<"/">> \o bucketName \o <<"/">> \o encodedName

\* The array joined with '\n' and handed to sign.update.
StringToSign(cfg, extensionHeaders) ==
  [verb |-> JoinElement(cfg.action),
   contentMd5 |-> OrEmpty(cfg.contentMd5),
   contentType |-> OrEmpty(cfg.contentType),
   expiration |-> cfg.expiresInSeconds,
   tail |-> extensionHeadersString(extensionHeaders) \o cfg.resource]

\* The signed URL handed to the callback.
SignedUrl(cfg, creds, str) ==
  [base |-> <<"h", "/">> \o bucketName \o <<"/">> \o encodedName,
   GoogleAccessId |-> creds.client_email,
   Expires |-> cfg.expiresInSeconds,
   Signature |-> [of |-> str, key |-> creds.private_key]]

NoConfig ==
  [action |-> undefined, contentMd5 |-> undefined, contentType |-> undefined,
   expiresInSeconds |-> 0, resource |-> <<>>]

NoUrl ==
  [base |-> <<>>, GoogleAccessId |-> undefined, Expires |-> 0,
   Signature |-> [of |-> StringToSign(NoConfig, [supplied |-> FALSE, names |-> NoHeaders]),
                  key |-> undefined]]

NoCredentials == [err |-> undefined, private_key |-> undefined, client_email |-> undefined]

InitSign ==
  /\ opts \in SigningOptions
  /\ spc = "idle"
  /\ checkedAt = 0
  /\ config = NoConfig
  /\ credCalls = 0
  /\ credentials = NoCredentials
  /\ signedStrings = <<>>
  /\ callbacks = <<>>
  /\ promise = [state |-> "none", error |-> undefined, url |-> NoUrl]

\* createSignedURL(opts) -> file.getSignedUrl(config, next), up to the credential
\* lookup. A throw inside Promise.fromNode's resolver rejects the promise.
createSignedURL(now) ==
  /\ spc = "idle"
  /\ checkedAt' = now
  /\ signedStrings' = <<>>
  /\ callbacks' = <<>>
  /\ credentials' = NoCredentials
  /\ IF Expired(opts.expires, now)
       THEN /\ spc' = "thrown"
            /\ promise' = [state |-> "rejected", error |-> "Error", url |-> NoUrl]
            /\ credCalls' = 0
            /\ config' = NoConfig
       ELSE /\ spc' = "awaitCredentials"
            /\ promise' = [state |-> "pending", error |-> undefined, url |-> NoUrl]
            /\ credCalls' = 1
            /\ config' = [action |-> ActionVerb(opts.action),
                          contentMd5 |-> opts.md5,
                          contentType |-> opts.type,
                          expiresInSeconds |-> MathRound(opts.expires),
                          resource |-> Resource]
  /\ UNCHANGED opts
  /\ UNCHANGED <<bucketVars, uploadVars>>

\* The callback of this.storage.getCredentials.
getCredentialsCallback(answer) ==
  /\ spc = "awaitCredentials"
  /\ spc' = "done"
  /\ credentials' = answer
  /\ IF answer.err # undefined \/ CredentialsMissing(answer)
       THEN /\ callbacks' = Append(callbacks, [err |-> "SigningError", url |-> NoUrl])
            /\ promise' = [state |-> "rejected", error |-> "SigningError", url |-> NoUrl]
            /\ UNCHANGED signedStrings
       ELSE LET str == StringToSign(config, opts.extensionHeaders)
                url == SignedUrl(config, answer, str)
            IN  /\ signedStrings' = Append(signedStrings, str)
                /\ callbacks' = Append(callbacks, [err |-> undefined, url |-> url])
                /\ promise' = [state |-> "fulfilled", error |-> undefined, url |-> url]
  /\ UNCHANGED <<opts, checkedAt, config, credCalls>>
  /\ UNCHANGED <<bucketVars, uploadVars>>

NextSign ==
  \/ \E now \in Clocks : createSignedURL(now)
  \/ \E answer \in CredentialAnswers : getCredentialsCallback(answer)

(***************************************************************************)
(* Properties of URL signing.                                              *)
(***************************************************************************)
ValidActions == {"read", "write", "delete"}

\* The callback invocations that carried a URL.
UrlDeliveries == {i \in 1..Len(callbacks) : callbacks[i].err = undefined}

\* C4: a signing request whose expiry is strictly earlier than the current time
\* fails with the validation error before any credential lookup: getCredentials is
\* never called, nothing is signed, and no URL (indeed no callback) is delivered.
C4_PastExpiryFailsBeforeCredentials ==
  (spc # "idle" /\ opts.expires < checkedAt) =>
    /\ spc = "thrown"
    /\ promise.state = "rejected"
    /\ promise.error = "Error"
    /\ credCalls = 0
    /\ signedStrings = <<>>
    /\ callbacks = <<>>

\* C4 witness: a request with a past expiry has been made and has thrown.
C4_Witness ==
  /\ spc = "thrown"
  /\ opts.expires < checkedAt

\* The credential provider's answer cannot be signed with.
BadAnswer(a) ==
  \/ a.err # undefined
  \/ a.private_key \in {undefined, ""}
  \/ a.client_email \in {undefined, ""}

\* C5: when the credential provider answers with an error, or with credentials
\* lacking private_key or client_email, createSignedURL rejects with a
\* SigningError, nothing is signed, no URL is delivered, and the callback is
\* invoked exactly once.
C5_BadCredentialsRejectOnce ==
  /\ Len(callbacks) <= 1
  /\ (spc = "done" /\ BadAnswer(credentials)) =>
       /\ promise.state = "rejected"
       /\ promise.error = "SigningError"
       /\ signedStrings = <<>>
       /\ UrlDeliveries = {}
       /\ Len(callbacks) = 1
       /\ callbacks[1].err = "SigningError"

\* C5 witness: the provider answered with a private key but no client_email, and
\* the request is over.
C5_Witness ==
  /\ spc = "done"
  /\ credentials.err = undefined
  /\ credentials.private_key = "PEM"
  /\ credentials.client_email = undefined

\* C8: read, write and delete map to GET, PUT and DELETE; any other action,
\* an absent one included, fails with an error before any signature attempt: no
\* string is signed and no URL is produced for it.
C8_UnknownActionFailsBeforeSigning ==
  /\ (spc \in {"awaitCredentials", "done"} /\ opts.action \in ValidActions) =>
       config.action = (CASE opts.action = "read" -> "GET"
                          [] opts.action = "write" -> "PUT"
                          [] opts.action = "delete" -> "DELETE")
  /\ opts.action \notin ValidActions =>
       /\ signedStrings = <<>>
       /\ UrlDeliveries = {}
       /\ promise.state # "fulfilled"

\* The canonical form of one extension header: lowercase(name):value\n.
CanonicalLine(headerName, value) ==
  toLowerCase(headerName) \o <<":">> \o value \o <<"\n">>

RECURSIVE CanonicalLines(_)
CanonicalLines(names) ==
  IF names = <<>> THEN <<>>
  ELSE CanonicalLine(Head(names), HeaderValue) \o CanonicalLines(Tail(names))

\* C9: the extension-header segment of the signed string is the concatenation,
\* in the mapping's insertion order, of lowercase(name):value\n for each supplied
\* header, and is empty when no headers are supplied.
C9_ExtensionHeadersLowercasedInOrder ==
  \A i \in 1..Len(signedStrings) :
    signedStrings[i].tail =
      (IF opts.extensionHeaders.supplied
         THEN CanonicalLines(opts.extensionHeaders.names)
         ELSE <<>>) \o Resource

\* sec is ms / 1000 rounded to the nearest integer, a half rounded up.
IsNearestSecond(sec, ms) ==
  /\ 2 * sec * MsPerSecond - MsPerSecond <= 2 * ms
  /\ 2 * ms < 2 * sec * MsPerSecond + MsPerSecond

\* C10 as stated: the expiry in the signed string and in the Expires parameter
\* is floor(expiry / 1000), of the expiry that was compared against the clock.
C10_ExpiresIsFloorOfSeconds ==
  /\ \A i \in 1..Len(signedStrings) :
       /\ signedStrings[i].expiration * MsPerSecond <= opts.expires
       /\ opts.expires < (signedStrings[i].expiration + 1) * MsPerSecond
       /\ ~(opts.expires < checkedAt)
  /\ \A i \in UrlDeliveries :
       /\ callbacks[i].url.Expires * MsPerSecond <= opts.expires
       /\ opts.expires < (callbacks[i].url.Expires + 1) * MsPerSecond

\* C10 amended: the expiry in the signed string and in the Expires parameter is
\* expiry / 1000 rounded to the nearest second (a half rounds up), the same value
\* in both places, of the expiry that was compared against the clock.
C10_ExpiresIsRoundedSeconds ==
  /\ \A i \in 1..Len(signedStrings) :
       /\ IsNearestSecond(signedStrings[i].expiration, opts.expires)
       /\ ~(opts.expires < checkedAt)
  /\ \A i \in UrlDeliveries :
       /\ IsNearestSecond(callbacks[i].url.Expires, opts.expires)
       /\ callbacks[i].url.Expires = callbacks[i].url.Signature.of.expiration

\* C10 witness: a URL was delivered for an expiry in the upper half of a second,
\* where rounding and truncating differ.
C10_Witness ==
  /\ UrlDeliveries # {}
  /\ opts.expires = MsPerSecond + 999
  /\ \A i \in UrlDeliveries : callbacks[i].url.Expires = 2

(***************************************************************************)
(* MMResumableUpload.makeRequest.                                          *)
(***************************************************************************)
\* JavaScript values of mixed type: undefined, numbers and strings.
JsUndefined == [t |-> "undefined", n |-> 0, s |-> ""]
JsNumber(k) == [t |-> "number", n |-> k, s |-> ""]
JsString(x) == [t |-> "string", n |-> 0, s |-> x]

\* ToBoolean: undefined, 0 and '' are falsy.
IsDefined(v) == v.t # "undefined"

ToBoolean(v) ==
  CASE v.t = "undefined" -> FALSE
    [] v.t = "number" -> v.n # 0
    [] v.t = "string" -> v.s # ""

ContentLengths ==
  {JsUndefined, JsNumber(0), JsNumber(1024), JsString(""), JsString("1024")}

UploadContentLength == "X-Upload-Content-Length"

\* Headers the resumable-upload client sets itself, as <<name, value>> pairs.
ClientHeaders ==
  {<<"X-Upload-Content-Type", JsString("text/plain")>>,
   <<"Content-Range", JsString("bytes */*")>>}

\* Request options as the client builds them: without headers, or with some.
FreshReqOpts ==
  {[hasHeaders |-> FALSE, headers |-> {}]}
    \cup {[hasHeaders |-> TRUE, headers |-> h] : h \in SUBSET ClientHeaders}

\* headers[name] = value
SetHeader(headers, name, value) ==
  {h \in headers : h[1] # name} \cup {<<name, value>>}

\* An injection that starts from an empty header object instead of
\* reqOpts.headers.
InjectReplacingHeaders(meta, r) ==
  IF ToBoolean(meta.contentLength)
    THEN [hasHeaders |-> TRUE,
          headers |-> {<<UploadContentLength, meta.contentLength>>}]
    ELSE r

\* Lines 13-17: the header injection.
InjectContentLength(meta, r) ==
  IF ToBoolean(meta.contentLength)
    THEN [hasHeaders |-> TRUE,
          headers |-> SetHeader(IF r.hasHeaders THEN r.headers ELSE {},
                                UploadContentLength, meta.contentLength)]
    ELSE r

\* Errors super.makeRequest may call back with: none, an Error instance, or a
\* plain object carrying a message and further fields.
NoError == [kind |-> "null", instanceofError |-> FALSE, message |-> "", code |-> 0]
TransportErrors ==
  {[kind |-> "Error", instanceofError |-> TRUE, message |-> "socket hang up", code |-> 0],
   [kind |-> "Object", instanceofError |-> FALSE, message |-> "Not Found", code |-> 404]}

\* new Errors.Error(err.message); Object.assign(error, err)
NormalizedError(err) ==
  [kind |-> "Errors.Error", instanceofError |-> TRUE, message |-> err.message,
   code |-> err.code]

\* Lines 19-31: what processResponse hands to the callback as its error.
processResponse(err) ==
  IF err.kind # "null"
    THEN IF err.instanceofError
           THEN err
           ELSE LET error == NormalizedError(err) IN err
    ELSE NoError

InitUpload ==
  /\ metadata \in [contentLength : ContentLengths]
  /\ reqOpts \in FreshReqOpts
  /\ upc = "idle"
  /\ sent = <<>>
  /\ delivered = <<>>
  /\ attempts = 0

\* makeRequest(reqOpts, callback), up to the call of super.makeRequest. A retry
\* may pass the options object of the attempt before it, or a new one.
makeRequest(r) ==
  /\ upc = "idle"
  /\ attempts < MaxAttempts
  /\ attempts' = attempts + 1
  /\ reqOpts' = InjectContentLength(metadata, r)
  /\ sent' = Append(sent, [given |-> r, passed |-> reqOpts'])
  /\ upc' = "inflight"
  /\ UNCHANGED <<metadata, delivered>>
  /\ UNCHANGED <<bucketVars, signVars>>

firstOrFreshRequest == \E r \in FreshReqOpts : makeRequest(r)

retrySameOptions == attempts > 0 /\ makeRequest(reqOpts)

\* super.makeRequest calls processResponse(err, resp, body).
response(err) ==
  /\ upc = "inflight"
  /\ upc' = "idle"
  /\ delivered' = Append(delivered, [given |-> err, err |-> processResponse(err)])
  /\ UNCHANGED <<metadata, reqOpts, sent, attempts>>
  /\ UNCHANGED <<bucketVars, signVars>>

NextUpload ==
  \/ firstOrFreshRequest
  \/ retrySameOptions
  \/ \E err \in TransportErrors \cup {NoError} : response(err)

(***************************************************************************)
(* Properties of makeRequest.                                              *)
(***************************************************************************)
\* The request passed on carries X-Upload-Content-Length: contentLength and
\* every header it was given, unchanged.
CarriesLengthAndKeepsHeaders(req) ==
  /\ req.passed.hasHeaders
  /\ <<UploadContentLength, metadata.contentLength>> \in req.passed.headers
  /\ \A h \in req.passed.headers :
       h[1] = UploadContentLength => h[2] = metadata.contentLength
  /\ req.given.hasHeaders => req.given.headers \subseteq req.passed.headers

\* C6 as stated: with metadata.contentLength present, every request passed to
\* super.makeRequest, first attempt and retries alike, carries
\* X-Upload-Content-Length equal to it and keeps the headers it already had.
C6_HeaderOnEveryAttemptWhenPresent ==
  IsDefined(metadata.contentLength) =>
    \A k \in 1..Len(sent) : CarriesLengthAndKeepsHeaders(sent[k])

\* C6 amended: with metadata.contentLength present and truthy (not 0, not the
\* empty string), every request passed to super.makeRequest, first attempt and
\* retries alike, carries X-Upload-Content-Length equal to it and keeps the
\* headers it already had.
C6_HeaderOnEveryAttemptWhenTruthy ==
  (IsDefined(metadata.contentLength)
     /\ metadata.contentLength \notin {JsNumber(0), JsString("")}) =>
    \A k \in 1..Len(sent) : CarriesLengthAndKeepsHeaders(sent[k])

\* C6 witness: contentLength is 1024 and two attempts went out, the first with
\* headers of the client's own, the second a retry.
C6_Witness ==
  /\ metadata.contentLength = JsNumber(1024)
  /\ Len(sent) = 2
  /\ sent[1].given.hasHeaders
  /\ sent[1].given.headers # {}

\* C7: an error of the transport that is not an Error instance reaches the
\* callback as a newly built typed error with the original's message and fields;
\* an Error instance reaches it unchanged; so every error delivered is typed.
C7_DeliveredErrorsAreTyped ==
  \A k \in 1..Len(delivered) :
    LET d == delivered[k] IN
      /\ d.given.kind = "null" => d.err.kind = "null"
      /\ (d.given.kind # "null" /\ d.given.instanceofError) => d.err = d.given
      /\ (d.given.kind # "null" /\ ~d.given.instanceofError) =>
           /\ d.err.instanceofError
           /\ d.err.message = d.given.message
           /\ d.err.code = d.given.code

(***************************************************************************)
(* The three specifications. Each holds the other components idle.         *)
(***************************************************************************)
IdleBucket ==
  /\ remote = <<{}>>
  /\ pc = [c \in Callers |-> "idle"]
  /\ viaConnect = [c \in Callers |-> FALSE]
  /\ query = [c \in Callers |-> NoQuery]
  /\ requested = [c \in Callers |-> <<>>]
  /\ trace = [c \in Callers |-> <<>>]
  /\ createArgs = [c \in Callers |-> <<>>]
  /\ result = [c \in Callers |-> Unset]
  /\ prior = [c \in Callers |-> 0]
  /\ settled = <<>>
  /\ started = 0
  /\ creations = 0
  /\ cached = Unset
  /\ bucketWrites = <<>>

IdleSign ==
  /\ opts = [action |-> "read", expires |-> 0, md5 |-> undefined, type |-> undefined,
             extensionHeaders |-> [supplied |-> FALSE, names |-> NoHeaders]]
  /\ spc = "idle"
  /\ checkedAt = 0
  /\ config = NoConfig
  /\ credCalls = 0
  /\ credentials = NoCredentials
  /\ signedStrings = <<>>
  /\ callbacks = <<>>
  /\ promise = [state |-> "none", error |-> undefined, url |-> NoUrl]

IdleUpload ==
  /\ metadata = [contentLength |-> JsUndefined]
  /\ reqOpts = [hasHeaders |-> FALSE, headers |-> {}]
  /\ upc = "idle"
  /\ sent = <<>>
  /\ delivered = <<>>
  /\ attempts = 0

Init == InitBucket /\ IdleSign /\ IdleUpload

Next == NextBucket

Spec == Init /\ [][Next]_vars

InitSigning == IdleBucket /\ InitSign /\ IdleUpload

SpecSign == InitSigning /\ [][NextSign]_vars

InitUploading == IdleBucket /\ IdleSign /\ InitUpload

SpecUpload == InitUploading /\ [][NextUpload]_vars

====
